---- MODULE Spec2Model ----
(***************************************************************************)
(* Model of the stock-analysis pipeline: the strategy classes run by the   *)
(* backtest engine, the signal evaluator check_current_signal, the         *)
(* strategy selection of analyze_ticker / the app's AI tab, and the        *)
(* multi-instrument scans of notify.main and batch_analysis.main.          *)
(*                                                                         *)
(* Strategy names are written in ASCII:                                    *)
(*   "SMA" = SMAクロス, "RSI" = RSI逆張り, "MACD" = MACD, "BB" = ボリンジャー *)
(* Actions: "buy" = 買い 🚀, "sell" = 売り 🔻, "stay" = ステイ,              *)
(*          "undecidable" = 判定不能.                                      *)
(***************************************************************************)
EXTENDS Integers, Sequences, FiniteSets, TLC

VARIABLES
    \* --- signal evaluation on one frame (check_current_signal, next()) ---
    strategy_name,   \* the strategy name handed to check_current_signal
    df,              \* the frame: a sequence of rows, column name -> value
    mode,            \* "holding" (the instrument is held) or "watching"
    sig,             \* result of notify.check_current_signal, or NoResult
    app_sig,         \* result of app.check_current_signal, or NoResult
    step,            \* what the strategy class's next() issues on the last bar
    \* --- one backtest run: Backtest(df, cls, cash, commission).run() ---
    bt_class,        \* the strategy class under test, by its registered name
    bt_rows,         \* the last two rows the strategy sees
    bt_i,            \* bars stepped so far
    cash,            \* the broker's cash, in 1/1000 yen
    trades,          \* the open trades: [size, entry_price], price in 1/1000 yen
    orders,          \* the order next() placed on the last bar
    bt_status,       \* "running", "raised" or "finished"
    \* --- the selection: notify.analyze_ticker and the app's AI tab ---
    bars,            \* the number of rows yf.download returned
    outcomes,        \* per candidate of STRATEGIES: what its backtest gives
    a_df,            \* the frame of the instrument under analysis
    a_mode,          \* the mode analyze_ticker was called with
    idx,             \* analyze_ticker: the candidate the loop is at
    ran,             \* analyze_ticker: the candidates whose backtest was run
    best_strat,      \* analyze_ticker: best_strat ("None" before any)
    best_win_rate,   \* analyze_ticker: best_win_rate
    ret,             \* analyze_ticker: the value returned, or Running
    app_i,           \* AI tab: the candidate the loop is at
    results,         \* AI tab: the list of result rows
    app_best,        \* AI tab: res_df.iloc[0], Failed, or Running
    \* --- the scans: notify.main and batch_analysis.main ---
    holdings,        \* the Holdings sheet: per instrument, what the run meets
    watchlist,       \* the Watchlist sheet, likewise
    n_pc,            \* notify.main: "holdings", "watchlist", "send", "done"
    n_i,             \* notify.main: the instrument the current loop is at
    analysed,        \* notify.main: the calls of analyze_ticker made so far
    reports,         \* notify.main: reports
    watch_reports,   \* notify.main: watch_reports
    sent,            \* the messages handed to send_line_push
    tickers,         \* batch_analysis: per ticker of TICKERS, what the run meets
    b_i,             \* batch_analysis.main: the ticker the loop is at
    fetched,         \* batch_analysis.main: the calls of get_ticker_data so far
    b_results,       \* batch_analysis.main: results
    \* --- a second selection over the same series ---
    best2,           \* analyze_ticker called again: its best, "off" or Running
    app_best2,       \* the AI tab run again: its best, "off" or Running
    \* --- one call of batch_analysis.get_ticker_data ---
    t_in,            \* what the call meets for its ticker
    t_out,           \* what it returns, or Pending
    \* --- one call of notify.analyze_ticker ---
    an_in,           \* what the call meets for its instrument
    an_mode,         \* its mode argument
    an_out           \* what it returns, or Pending

sigVars == <<strategy_name, df, mode, sig, app_sig, step>>

btVars == <<bt_class, bt_rows, bt_i, cash, trades, orders, bt_status>>

selVars == <<bars, outcomes, a_df, a_mode, idx, ran, best_strat, best_win_rate, ret,
             app_i, results, app_best>>

scanVars == <<holdings, watchlist, n_pc, n_i, analysed, reports, watch_reports,
              sent, tickers, b_i, fetched, b_results>>

twiceVars == <<best2, app_best2>>

tickerVars == <<t_in, t_out>>

anVars == <<an_in, an_mode, an_out>>

vars == <<sigVars, btVars, selVars, scanVars, twiceVars, tickerVars, anVars>>

\* what a step of one part leaves alone
notSig == <<btVars, selVars, scanVars, twiceVars, tickerVars, anVars>>
notBt == <<sigVars, selVars, scanVars, twiceVars, tickerVars, anVars>>
notSel == <<sigVars, btVars, scanVars, twiceVars, tickerVars, anVars>>
notScan == <<sigVars, btVars, selVars, twiceVars, tickerVars, anVars>>
notTwice == <<sigVars, btVars, scanVars, tickerVars, anVars>>
notAn == <<sigVars, btVars, selVars, scanVars, twiceVars, tickerVars>>
notTicker == <<sigVars, btVars, selVars, scanVars, twiceVars, anVars>>

----------------------------------------------------------------------------
(* Values *)

\* a missing float (pandas NaN); every comparison with it is false
NaN == -999

NoResult == [action |-> "none"]

\* Python float comparison: False as soon as one side is NaN
lt(a, b) == a # NaN /\ b # NaN /\ a < b

gt(a, b) == lt(b, a)

----------------------------------------------------------------------------
(* backtesting.lib.crossover and the four strategy classes *)

\* crossover(series1, series2):
\*     series1[-2] < series2[-2] and series1[-1] > series2[-1]
\* s1, s2 are <<previous value, latest value>>
crossover(s1, s2) == lt(s1[1], s2[1]) /\ gt(s1[2], s2[2])

\* a number is broadcast to a constant series by crossover
const(n) == <<n, n>>

\* the last two values of a column of the frame
col(frame, k) == <<frame[Len(frame) - 1][k], frame[Len(frame)][k]>>

RsiUpper == 70
RsiLower == 30

\* ta.macd returns the columns MACD, MACDh (histogram), MACDs (signal) in
\* this order; MacdTrend reads them by position
MacdColumns == <<"MACD_12_26_9", "MACDh_12_26_9", "MACDs_12_26_9">>

\* ta.bbands returns the columns BBL, BBM, BBU, ... in this order
BbColumns == <<"BBL_20_2.0", "BBM_20_2.0", "BBU_20_2.0">>

\* bool(a < b) of two arrays of n elements whose last elements are x and y:
\* numpy compares elementwise, and the truth value of an array of more
\* than one element is a ValueError
ArrayLess(n, x, y) ==
    IF n = 1 THEN (IF lt(x, y) THEN "True" ELSE "False") ELSE "ValueError"

\* SmaCross.next
SmaCrossNext(frame) ==
    IF crossover(col(frame, "SMA_5"), col(frame, "SMA_25")) THEN "buy"
    ELSE IF crossover(col(frame, "SMA_25"), col(frame, "SMA_5")) THEN "close"
    ELSE "none"

\* a next() of RsiOscillator without its exit branch
RsiOscillatorNextNoExit(frame) ==
    IF crossover(col(frame, "RSI_14"), const(RsiLower)) THEN "buy"
    ELSE "none"

\* RsiOscillator.next
RsiOscillatorNext(frame) ==
    IF crossover(col(frame, "RSI_14"), const(RsiLower)) THEN "buy"
    ELSE IF crossover(const(RsiUpper), col(frame, "RSI_14")) THEN "close"
    ELSE "none"

\* MacdTrend.next: self.macd = macd.iloc[:, 0], self.signal = macd.iloc[:, 1]
MacdTrendNext(frame) ==
    LET macd == col(frame, MacdColumns[1])
        signal == col(frame, MacdColumns[2])
    IN  IF crossover(macd, signal) THEN "buy"
        ELSE IF crossover(signal, macd) THEN "close"
        ELSE "none"

\* BollingerBands.next: self.data.Close, self.lower and self.upper are the
\* arrays up to the current bar (Len(frame) elements)
BollingerBandsNext(frame, is_long) ==
    LET n == Len(frame)
        close == frame[n]["Close"]
        below == ArrayLess(n, close, frame[n][BbColumns[1]])
        above == ArrayLess(n, frame[n][BbColumns[3]], close)
    IN  IF below = "ValueError" THEN "raise"
        ELSE IF below = "True" THEN (IF ~is_long THEN "buy" ELSE "none")
        ELSE IF above = "ValueError" THEN "raise"
        ELSE IF above = "True" THEN "close"
        ELSE "none"

\* STRATEGIES: name and class, in the fixed order
STRATEGIES == <<"SMA", "RSI", "MACD", "BB">>

\* what next() of the class registered under `name` issues on the last bar
\* of `frame`: "buy" (self.buy()), "close" (self.position.close()), "none",
\* or "raise"
StrategyNext(name, frame, is_long) ==
    CASE name = "SMA" -> SmaCrossNext(frame)
      [] name = "RSI" -> RsiOscillatorNext(frame)
      [] name = "MACD" -> MacdTrendNext(frame)
      [] name = "BB" -> BollingerBandsNext(frame, is_long)

----------------------------------------------------------------------------
(* check_current_signal *)

\* g(row, k, d): the value, or the default when the column is absent or NaN
g(row, k, d) == IF k \in DOMAIN row /\ row[k] # NaN THEN row[k] ELSE d

\* the rule with crossovers that also fire when the latest fast value has
\* only reached the slow one
SignalRuleNonStrict(name, v) ==
    CASE name = "SMA" ->
            IF v.p_sma5 < v.p_sma25 /\ v.sma5 >= v.sma25 THEN "buy"
            ELSE IF v.p_sma5 > v.p_sma25 /\ v.sma5 <= v.sma25 THEN "sell"
            ELSE "stay"
      [] name = "RSI" ->
            IF v.rsi < 30 THEN "buy"
            ELSE IF v.rsi > 70 THEN "sell"
            ELSE "stay"
      [] name = "MACD" ->
            IF v.p_macd < v.p_sig /\ v.macd >= v.sig THEN "buy"
            ELSE IF v.p_macd > v.p_sig /\ v.macd <= v.sig THEN "sell"
            ELSE "stay"
      [] name = "BB" ->
            IF lt(v.close, v.bbl) THEN "buy"
            ELSE IF gt(v.close, v.bbu) THEN "sell"
            ELSE "stay"
      [] OTHER -> "stay"

\* the rule of check_current_signal for each strategy name, on the values
\* it has read; "stay" when no branch assigns
SignalRule(name, v) ==
    CASE name = "SMA" ->
            IF v.p_sma5 < v.p_sma25 /\ v.sma5 > v.sma25 THEN "buy"
            ELSE IF v.p_sma5 > v.p_sma25 /\ v.sma5 < v.sma25 THEN "sell"
            ELSE "stay"
      [] name = "RSI" ->
            IF v.rsi < 30 THEN "buy"
            ELSE IF v.rsi > 70 THEN "sell"
            ELSE "stay"
      [] name = "MACD" ->
            IF v.p_macd < v.p_sig /\ v.macd > v.sig THEN "buy"
            ELSE IF v.p_macd > v.p_sig /\ v.macd < v.sig THEN "sell"
            ELSE "stay"
      [] name = "BB" ->
            IF lt(v.close, v.bbl) THEN "buy"
            ELSE IF gt(v.close, v.bbu) THEN "sell"
            ELSE "stay"
      [] OTHER -> "stay"

\* the values check_current_signal reads from the last two rows
SignalValues(frame) ==
    LET latest == frame[Len(frame)]
        prev == frame[Len(frame) - 1]
    IN  [close |-> latest["Close"],
         sma5 |-> g(latest, "SMA_5", 0), sma25 |-> g(latest, "SMA_25", 0),
         p_sma5 |-> g(prev, "SMA_5", 0), p_sma25 |-> g(prev, "SMA_25", 0),
         rsi |-> g(latest, "RSI_14", 50),
         macd |-> g(latest, "MACD_12_26_9", 0),
         sig |-> g(latest, "MACDs_12_26_9", 0),
         p_macd |-> g(prev, "MACD_12_26_9", 0),
         p_sig |-> g(prev, "MACDs_12_26_9", 0),
         bbl |-> g(latest, "BBL_20_2.0", 0),
         bbu |-> g(latest, "BBU_20_2.0", 0)]

\* a check_current_signal whose g reads row[k] without testing `k in row`:
\* an absent indicator column raises as well
SignalRaisesOnAbsentColumn(frame) ==
    \/ Len(frame) < 2
    \/ \E k \in {"Close", "SMA_5", "SMA_25", "RSI_14", "MACD_12_26_9",
                  "MACDs_12_26_9", "BBL_20_2.0", "BBU_20_2.0"} :
          k \notin DOMAIN frame[Len(frame)] \/ k \notin DOMAIN frame[Len(frame) - 1]

\* df.iloc[-1], df.iloc[-2] and latest['Close'] raise on a frame of fewer
\* than two rows or without the Close column
SignalRaises(frame) ==
    Len(frame) < 2 \/ "Close" \notin DOMAIN frame[Len(frame)]

\* notify.check_current_signal(strategy_name, df) -> action, reason, rsi, close
check_current_signal(name, frame) ==
    IF SignalRaises(frame)
    THEN [action |-> "undecidable", reason |-> "error", rsi |-> 0, close |-> 0]
    ELSE LET v == SignalValues(frame)
             a == SignalRule(name, v)
         IN  [action |-> a,
              reason |-> IF a = "stay" THEN "no signal" ELSE name,
              rsi |-> v.rsi, close |-> v.close]

\* a signal that is gated on the position: no buy for a held instrument, no
\* sell for a watched one
CurrentSignalGated(name, frame, m) ==
    LET r == check_current_signal(name, frame)
    IN  IF (r.action = "buy" /\ m = "holding") \/ (r.action = "sell" /\ m = "watching")
        THEN [r EXCEPT !.action = "stay", !.reason = "no signal"]
        ELSE r

\* the call in analyze_ticker: check_current_signal(best_strat, df); the mode
\* of the instrument is not passed
CurrentSignal(name, frame, m) == check_current_signal(name, frame)

\* app.check_current_signal(strategy_name, df) -> action, reason
app_check_current_signal(name, frame) ==
    IF SignalRaises(frame)
    THEN [action |-> "undecidable", reason |-> "no data"]
    ELSE LET a == SignalRule(name, SignalValues(frame))
         IN  [action |-> a, reason |-> IF a = "stay" THEN "no signal" ELSE name]

----------------------------------------------------------------------------
(* Frames *)

\* one row of the frame after the indicator columns were appended; the
\* histogram column is MACD minus signal, missing when either is
Row(close, sma5, sma25, rsi, macd, macds, bbl, bbu) ==
    ("Close" :> close) @@ ("SMA_5" :> sma5) @@ ("SMA_25" :> sma25) @@
    ("RSI_14" :> rsi) @@ ("MACD_12_26_9" :> macd) @@
    ("MACDh_12_26_9" :> IF macd = NaN \/ macds = NaN THEN NaN ELSE macd - macds) @@
    ("MACDs_12_26_9" :> macds) @@ ("BBL_20_2.0" :> bbl) @@
    ("BBM_20_2.0" :> IF bbl = NaN THEN NaN ELSE 100) @@ ("BBU_20_2.0" :> bbu)

SmaVals == {NaN, 1, 2}
RsiVals == {NaN, 25, 35, 65, 75}
MacdVals == {NaN, -1, 1}

\* an indicator is missing only during its warm-up: once present it stays
\* present, and the longer lookback is present only if the shorter one is
WarmUp(pa, pb, a, b) ==
    /\ (pa # NaN => a # NaN) /\ (pb # NaN => b # NaN)
    /\ (pb # NaN => pa # NaN) /\ (b # NaN => a # NaN)

\* two-row frames in which the columns read by one strategy vary
SmaFrames ==
    { <<Row(100, pa, pb, 50, 0, 0, 90, 110), Row(100, a, b, 50, 0, 0, 90, 110)>> :
        <<pa, pb, a, b>> \in
            { q \in SmaVals \X SmaVals \X SmaVals \X SmaVals :
                WarmUp(q[1], q[2], q[3], q[4]) } }

RsiFrames ==
    { <<Row(100, 100, 100, p, 0, 0, 90, 110), Row(100, 100, 100, r, 0, 0, 90, 110)>> :
        <<p, r>> \in { q \in RsiVals \X RsiVals : q[1] # NaN => q[2] # NaN } }

MacdFrames ==
    { <<Row(100, 100, 100, 50, pa, pb, 90, 110), Row(100, 100, 100, 50, a, b, 90, 110)>> :
        <<pa, pb, a, b>> \in
            { q \in MacdVals \X MacdVals \X MacdVals \X MacdVals :
                WarmUp(q[1], q[2], q[3], q[4]) } }

BbFrames ==
    { <<Row(100, 100, 100, 50, 0, 0, 90, 110), Row(c, 100, 100, 50, 0, 0, l, u)>> :
        <<c, l, u>> \in
            { q \in {80, 100, 130} \X {NaN, 90} \X {NaN, 110} :
                (q[2] = NaN) <=> (q[3] = NaN) } }

FramesOf(name) ==
    CASE name = "SMA" -> SmaFrames
      [] name = "RSI" -> RsiFrames
      [] name = "MACD" -> MacdFrames
      [] name = "BB" -> BbFrames

StrategyNames == { STRATEGIES[i] : i \in 1..Len(STRATEGIES) }

Modes == {"holding", "watching"}

\* an instrument of the Holdings sheet is held: the position is Long
IsLong(m) == m = "holding"

----------------------------------------------------------------------------
(* Signal evaluation on one frame *)

SigStart ==
    /\ strategy_name \in StrategyNames
    /\ df \in FramesOf(strategy_name)
    /\ mode \in Modes
    /\ sig = NoResult
    /\ app_sig = NoResult
    /\ step = "pending"

\* notify.analyze_ticker: action, reason, ... = check_current_signal(best_strat, df)
Evaluate ==
    /\ sig = NoResult
    /\ sig' = CurrentSignal(strategy_name, df, mode)
    /\ UNCHANGED <<strategy_name, df, mode, app_sig, step, notSig>>

\* app, AI tab: action, reason = check_current_signal(strat["name"], df)
AppEvaluate ==
    /\ app_sig = NoResult
    /\ app_sig' = app_check_current_signal(strategy_name, df)
    /\ UNCHANGED <<strategy_name, df, mode, sig, step, notSig>>

\* one more step of the backtest engine on the latest bar: next() of the
\* strategy class
EngineStep ==
    /\ step = "pending"
    /\ step' = StrategyNext(strategy_name, df, IsLong(mode))
    /\ UNCHANGED <<strategy_name, df, mode, sig, app_sig, notSig>>

SigNext == Evaluate \/ AppEvaluate \/ EngineStep

----------------------------------------------------------------------------
(* Claims on the signal evaluation (SpecSignal) *)

Evaluated == sig.action # "none"

Stepped == step # "pending"

\* the columns the rule of each strategy name reads, on <<prev, latest>>
ReadColumns(name) ==
    CASE name = "SMA" -> <<{"SMA_5", "SMA_25"}, {"SMA_5", "SMA_25"}>>
      [] name = "RSI" -> <<{}, {"RSI_14"}>>
      [] name = "MACD" -> <<{"MACD_12_26_9", "MACDs_12_26_9"},
                            {"MACD_12_26_9", "MACDs_12_26_9"}>>
      [] name = "BB" -> <<{}, {"BBL_20_2.0", "BBU_20_2.0"}>>

Missing(row, k) == k \notin DOMAIN row \/ row[k] = NaN

SomeReadMissing(name, frame) ==
    \/ \E k \in ReadColumns(name)[1] : Missing(frame[Len(frame) - 1], k)
    \/ \E k \in ReadColumns(name)[2] : Missing(frame[Len(frame)], k)

\* C1: check_current_signal is one more step of the selected strategy: on
\* every pair of bars it reports a buy exactly when next() of the strategy
\* class issues buy() on the latest bar, and a sell exactly when next()
\* issues position.close().
C1_SignalIsOneEngineStep ==
    (Evaluated /\ Stepped) =>
        /\ (sig.action = "buy") <=> (step = "buy")
        /\ (sig.action = "sell") <=> (step = "close")

\* RSI fell from 35 to 25: the evaluator reports a buy on a bar on which
\* RsiOscillator.next issues no order
C1_Witness ==
    /\ strategy_name = "RSI"
    /\ df[1]["RSI_14"] = 35 /\ df[2]["RSI_14"] = 25
    /\ Evaluated /\ sig.action = "buy"
    /\ Stepped /\ step = "none"

\* C3 as stated: the evaluator returns Buy only when the position is Flat
\* and Sell only when the position is Long; an entry condition while Long
\* and an exit condition while Flat give Hold.
C3_ActionFollowsPosition ==
    Evaluated =>
        /\ (sig.action = "buy" => ~IsLong(mode))
        /\ (sig.action = "sell" => IsLong(mode))

\* the entry and exit tests of the evaluator's rule, on the values read
EntryTest(name, v) ==
    CASE name = "SMA" -> v.p_sma5 < v.p_sma25 /\ v.sma5 > v.sma25
      [] name = "RSI" -> v.rsi < 30
      [] name = "MACD" -> v.p_macd < v.p_sig /\ v.macd > v.sig
      [] name = "BB" -> lt(v.close, v.bbl)

ExitTest(name, v) ==
    CASE name = "SMA" -> v.p_sma5 > v.p_sma25 /\ v.sma5 < v.sma25
      [] name = "RSI" -> v.rsi > 70
      [] name = "MACD" -> v.p_macd > v.p_sig /\ v.macd < v.sig
      [] name = "BB" -> gt(v.close, v.bbu)

\* C3 (amended): the evaluator's action does not depend on the position
\* state: for a held and for a watched instrument alike it is Buy exactly
\* when the entry test of its rule holds on the latest two bars, Sell exactly
\* when the entry test fails and the exit test holds, and Hold otherwise.
C3_ActionIgnoresPosition ==
    Evaluated =>
        LET v == SignalValues(df)
        IN  /\ (sig.action = "buy") <=> EntryTest(strategy_name, v)
            /\ (sig.action = "sell") <=>
                   (~EntryTest(strategy_name, v) /\ ExitTest(strategy_name, v))
            /\ (sig.action = "stay") <=>
                   (~EntryTest(strategy_name, v) /\ ~ExitTest(strategy_name, v))

\* a held instrument (position Long) for which the evaluator returned Buy
C3_Witness == Evaluated /\ IsLong(mode) /\ sig.action = "buy"

\* C4: whenever an indicator value the strategy's rule reads on the previous
\* or the latest bar is missing, check_current_signal returns Hold, never a
\* buy or a sell.
C4_MissingIndicatorHolds ==
    (Evaluated /\ SomeReadMissing(strategy_name, df)) => sig.action = "stay"

\* the slow average of the previous bar is missing and the evaluator reports
\* a sell
C4_Witness ==
    /\ strategy_name = "SMA"
    /\ Missing(df[1], "SMA_25") /\ ~Missing(df[2], "SMA_25")
    /\ Evaluated /\ sig.action = "sell"

\* the four values a crossover rule compares, all present
CrossValues(name, frame) ==
    LET a == IF name = "SMA" THEN "SMA_5" ELSE "MACD_12_26_9"
        b == IF name = "SMA" THEN "SMA_25" ELSE "MACDs_12_26_9"
    IN  [pf |-> frame[Len(frame) - 1][a], ps |-> frame[Len(frame) - 1][b],
         f |-> frame[Len(frame)][a], s |-> frame[Len(frame)][b]]

CrossPresent(name, frame) ==
    /\ name \in {"SMA", "MACD"}
    /\ ~SomeReadMissing(name, frame)

\* previous fast strictly below previous slow, latest fast equal to latest slow
TouchFromBelow(name, frame) ==
    /\ CrossPresent(name, frame)
    /\ CrossValues(name, frame).pf < CrossValues(name, frame).ps
    /\ CrossValues(name, frame).f = CrossValues(name, frame).s

\* C10 as stated: on a bar where the previous fast value is strictly below
\* the previous slow value and the latest fast value equals the latest slow
\* value, the SMA / MACD rule of check_current_signal and next() of the
\* strategy report the entry.
C10_TouchIsEntry ==
    TouchFromBelow(strategy_name, df) =>
        /\ (Evaluated => sig.action = "buy")
        /\ ((Stepped /\ strategy_name = "SMA") => step = "buy")

\* C10 (amended): a crossover fires only when the previous value is strictly
\* below the reference and the latest value strictly above it: with all four
\* values present, the SMA / MACD rule of check_current_signal (notify and
\* app) and SmaCross.next report the entry exactly when prev fast < prev slow
\* and latest fast > latest slow, so a latest fast equal to latest slow is no
\* entry.
C10_CrossoverIsStrict ==
    CrossPresent(strategy_name, df) =>
        LET c == CrossValues(strategy_name, df)
            up == c.pf < c.ps /\ c.f > c.s
        IN  /\ (Evaluated => ((sig.action = "buy") <=> up))
            /\ (app_sig.action # "none" => ((app_sig.action = "buy") <=> up))
            /\ ((Stepped /\ strategy_name = "SMA") => ((step = "buy") <=> up))

\* a touch from below on which neither the evaluator nor next() entered
C10_Witness ==
    /\ TouchFromBelow(strategy_name, df)
    /\ strategy_name = "SMA"
    /\ sig.action = "stay" /\ app_sig.action = "stay" /\ step = "none"

----------------------------------------------------------------------------
(* One backtest run: Backtest(df, strat["class"], cash, commission).run()  *)
(* Money is counted in 1/1000 yen so that the commission is exact.         *)

\* cash = 1000000
Cash == 1000000

\* commission=.002, in 1/1000
CommissionPerMille == 2

\* the size of self.buy() when none is given: the fraction .9999 of the
\* available margin, in 1/10000
FullEquityPer10000 == 9999

\* bars per run
MaxBars == 5

\* opening prices of a bar, in yen (open = close on the bars modelled)
Prices == {100, 110}

\* Broker._adjusted_price of a buy: price * (1 + commission)
AdjustedPrice(p) == p * (1000 + CommissionPerMille)

RECURSIVE SumOver(_, _, _)
\* sum of size * per-unit amount over the open trades
SumOver(ts, i, last) ==
    IF i > Len(ts) THEN 0
    ELSE ts[i].size * (IF last = 0 THEN ts[i].entry ELSE last) + SumOver(ts, i + 1, last)

\* Broker.margin_available: max(0, equity - margin_used), with
\* equity = cash + sum of trade.pl and margin_used = sum of trade.value,
\* both at the last price
MarginAvailable(c, ts, p) ==
    LET value == SumOver(ts, 1, p * 1000)
        pl == value - SumOver(ts, 1, 0)
        free == (c + pl) - value
    IN  IF free > 0 THEN free ELSE 0

\* int((margin_available * .9999) // adjusted_price)
OrderSize(avail, p) ==
    (((avail \div 10000) * FullEquityPer10000)
        + ((avail % 10000) * FullEquityPer10000) \div 10000) \div AdjustedPrice(p)

\* Broker._process_orders for a market buy() at opening price p: the order
\* is cancelled when the margin does not buy one unit, else a trade opens
ProcessBuy(c, ts, p) ==
    LET avail == MarginAvailable(c, ts, p)
        size == OrderSize(avail, p)
    IN  IF size = 0 \/ size * AdjustedPrice(p) > avail THEN ts
        ELSE Append(ts, [size |-> size, entry |-> AdjustedPrice(p)])

\* Broker._close_trade for every open trade at price p: cash += trade.pl
CloseAll(c, ts, p) == c + (SumOver(ts, 1, p * 1000) - SumOver(ts, 1, 0))

\* the rows a strategy class sees once its indicators are warm
BtRows(name) ==
    CASE name = "SMA" ->
            { Row(100, a, b, 50, 0, 0, 90, 110) : <<a, b>> \in {1, 2} \X {1, 2} }
      [] name = "RSI" ->
            { Row(100, 100, 100, r, 0, 0, 90, 110) : r \in {25, 35, 65, 75} }
      [] name = "MACD" ->
            { Row(100, 100, 100, 50, a, b, 90, 110) : <<a, b>> \in {-1, 1} \X {-1, 1} }
      [] name = "BB" ->
            { Row(c, 100, 100, 50, 0, 0, 90, 110) : c \in {80, 100, 130} }

BtStart ==
    /\ bt_class \in StrategyNames
    /\ bt_rows \in { <<r>> : r \in BtRows(bt_class) }
    /\ bt_i = 0
    /\ cash = Cash * 1000
    /\ trades = <<>>
    /\ orders = "none"
    /\ bt_status = "running"

BtIdle ==
    /\ bt_class = "SMA"
    /\ bt_rows = <<>>
    /\ bt_i = 0
    /\ cash = Cash * 1000
    /\ trades = <<>>
    /\ orders = "none"
    /\ bt_status = "finished"

\* one iteration of Backtest.run: broker.next() fills the order of the
\* previous bar at this bar's open, then strategy.next() runs on the rows
\* up to this bar
BtBar(p, row) ==
    /\ bt_status = "running"
    /\ bt_i < MaxBars
    /\ LET rows == <<bt_rows[Len(bt_rows)], row>>
           c1 == IF orders = "close" THEN CloseAll(cash, trades, p) ELSE cash
           t1 == CASE orders = "close" -> <<>>
                   [] orders = "buy" -> ProcessBuy(cash, trades, p)
                   [] OTHER -> trades
           act == StrategyNext(bt_class, rows, t1 # <<>>)
       IN  /\ bt_rows' = rows
           /\ cash' = c1
           /\ trades' = t1
           /\ bt_status' = IF act = "raise" THEN "raised" ELSE "running"
           \* position.close() places one closing order per open trade
           /\ orders' = CASE act = "buy" -> "buy"
                          [] act = "close" /\ t1 # <<>> -> "close"
                          [] OTHER -> "none"
    /\ bt_i' = bt_i + 1
    /\ UNCHANGED <<bt_class, notBt>>

\* the end of the data: the open trades are closed at the last price and
\* the broker runs once more for the order of the last bar
BtFinish(p) ==
    /\ bt_status = "running"
    /\ bt_i >= 1
    /\ cash' = CloseAll(cash, trades, p)
    /\ trades' = IF orders = "buy" THEN ProcessBuy(CloseAll(cash, trades, p), <<>>, p)
                 ELSE <<>>
    /\ orders' = "none"
    /\ bt_status' = "finished"
    /\ UNCHANGED <<bt_class, bt_rows, bt_i, notBt>>

BtNext ==
    \/ \E p \in Prices : \E row \in BtRows(bt_class) : BtBar(p, row)
    \/ \E p \in Prices : BtFinish(p)

SigIdle ==
    /\ strategy_name = "SMA"
    /\ df = <<>>
    /\ mode = "holding"
    /\ sig = NoResult
    /\ app_sig = NoResult
    /\ step = "done"

----------------------------------------------------------------------------
(* The selection: the loop of notify.analyze_ticker and the AI tab of app  *)

\* the backtest of a candidate raised
Raise == [kind |-> "raise"]

\* bt.run() returned stats: stats['Win Rate [%]'] (NaN when no trade was
\* closed) and stats['Return [%]']
Stats(w, r) == [kind |-> "stats", win_rate |-> w, ret |-> r]

WinRates == {0, 50}
Returns == {-10, 10}

\* lengths of the series of an instrument (a recent listing is short)
SeriesLengths == {10, 20, 25, 40}

\* the number of rows an indicator column needs before it holds a value
\* (with fewer rows than the lookback pandas_ta computes nothing)
FirstValid(k) ==
    CASE k = "Close" -> 1
      [] k = "SMA_5" -> 5
      [] k = "RSI_14" -> 15
      [] k \in {"BBL_20_2.0", "BBM_20_2.0", "BBU_20_2.0"} -> 20
      [] k = "SMA_25" -> 25
      [] k = "MACD_12_26_9" -> 26
      [] k \in {"MACDh_12_26_9", "MACDs_12_26_9"} -> 34

\* the n-th row of a series: the columns still in warm-up are missing
Mask(row, n) == [k \in DOMAIN row |-> IF n >= FirstValid(k) THEN row[k] ELSE NaN]

\* the last two rows of a series of n rows whose warm rows are `shape`
FrameOf(shape, n) == <<Mask(shape[1], n - 1), Mask(shape[2], n)>>

AnyStats == {Stats(NaN, 0)} \cup { Stats(w, r) : w \in WinRates, r \in Returns }

\* what Backtest(df, cls, ...).run() can give on a series of n rows.
\* Strategy.init raises when the indicator cannot be computed (fewer rows
\* than its lookback); run() steps the bars after the warm-up, none when the
\* indicator is first valid on the last row; BollingerBands.next raises on
\* every bar it is called for.
RunOutcomes(name, n) ==
    CASE name = "SMA" ->
            IF n < 25 THEN {Raise} ELSE IF n = 25 THEN {Stats(NaN, 0)} ELSE AnyStats
      [] name = "RSI" -> IF n < 14 THEN {Raise} ELSE AnyStats
      [] name = "MACD" -> IF n < 26 THEN {Raise} ELSE AnyStats
      [] name = "BB" -> IF n = 20 THEN {Stats(NaN, 0)} ELSE {Raise}

OutcomesOf(n) ==
    { o \in [1..Len(STRATEGIES) -> AnyStats \cup {Raise}] :
        \A i \in 1..Len(STRATEGIES) : o[i] \in RunOutcomes(STRATEGIES[i], n) }

OutcomeCombos == UNION { OutcomesOf(n) : n \in SeriesLengths }

Running == [kind |-> "running"]

\* if pd.isna(win_rate): win_rate = 0
Normalised(w) == IF w = NaN THEN 0 ELSE w

\* an update that also replaces the best on an equal win rate
UpdateOnEqual(b, name, o) ==
    IF Normalised(o.win_rate) >= b.win_rate
    THEN [strat |-> name, win_rate |-> Normalised(o.win_rate)]
    ELSE b

\* the loop body after a backtest that returned stats:
\*     if win_rate > best_win_rate: best_win_rate, best_strat = win_rate, name
Update(b, name, o) ==
    IF Normalised(o.win_rate) > b.win_rate
    THEN [strat |-> name, win_rate |-> Normalised(o.win_rate)]
    ELSE b

\* a raise that ends the loop
AfterRaiseBreak(i) == Len(STRATEGIES) + 1

\* except: continue -- the loop goes on with the next candidate
AfterRaise(i) == i + 1

\* best_strat = None, best_win_rate = -1
NoBest == [strat |-> "None", win_rate |-> -1]

\* lines 214-250 of analyze_ticker: the default strategy, the signal of the
\* latest bar, and the report (None for a watched instrument without signal;
\* the error text when a step raises)
\* a report that is made for a watched instrument without a signal as well
BuildReportAlways(frame, m, b) ==
    LET chosen == IF b.strat = "None" THEN "SMA" ELSE b.strat
        s == CurrentSignal(chosen, frame, m)
        is_signal == s.action \in {"buy", "sell"}
    IN  IF SignalRaises(frame) \/ s.close = NaN THEN [kind |-> "error"]
        ELSE [kind |-> "report", strat |-> chosen, win_rate |-> b.win_rate,
              action |-> s.action,
              icon |-> IF s.action = "buy" THEN "fire"
                       ELSE IF m = "holding" THEN "eyes" ELSE "bell",
              reason |-> IF is_signal \/ m = "holding" THEN s.reason ELSE "",
              rsi_line |-> (is_signal \/ m = "holding") /\ chosen = "RSI"]

BuildReport(frame, m, b) ==
    LET chosen == IF b.strat = "None" THEN "SMA" ELSE b.strat
        s == CurrentSignal(chosen, frame, m)
        is_signal == s.action \in {"buy", "sell"}
    IN  IF SignalRaises(frame) \/ s.close = NaN THEN [kind |-> "error"]
        ELSE IF m = "watching" /\ ~is_signal THEN [kind |-> "none"]
        ELSE [kind |-> "report", strat |-> chosen, win_rate |-> b.win_rate,
              action |-> s.action,
              icon |-> IF s.action = "buy" THEN "fire"
                       ELSE IF m = "holding" THEN "eyes" ELSE "bell",
              reason |-> IF is_signal \/ m = "holding" THEN s.reason ELSE "",
              rsi_line |-> (is_signal \/ m = "holding") /\ chosen = "RSI"]

\* the last two warm rows of an instrument under analysis: no signal under
\* any rule, a buy under every rule, a sell under every rule
HoldFrame == <<Row(100, 100, 100, 50, 0, 0, 90, 110), Row(100, 100, 100, 50, 0, 0, 90, 110)>>
BuyFrame == <<Row(100, 1, 2, 50, -1, 1, 90, 110), Row(80, 2, 1, 25, 1, -1, 90, 110)>>
SellFrame == <<Row(100, 2, 1, 50, 1, -1, 90, 110), Row(130, 1, 2, 75, -1, 1, 90, 110)>>

Shapes == {HoldFrame, BuyFrame, SellFrame}

SelStart ==
    /\ bars \in SeriesLengths
    /\ outcomes \in OutcomesOf(bars)
    /\ a_df \in { FrameOf(shape, bars) : shape \in Shapes }
    /\ a_mode \in Modes
    /\ idx = 1
    /\ ran = <<>>
    /\ best_strat = NoBest.strat
    /\ best_win_rate = NoBest.win_rate
    /\ ret = Running
    /\ app_i = 1
    /\ results = <<>>
    /\ app_best = Running

SelIdle ==
    /\ bars = 0
    /\ outcomes = <<>>
    /\ a_df = <<>>
    /\ a_mode = "holding"
    /\ idx = 1
    /\ ran = <<>>
    /\ best_strat = NoBest.strat
    /\ best_win_rate = NoBest.win_rate
    /\ ret = [kind |-> "none"]
    /\ app_i = 1
    /\ results = <<>>
    /\ app_best = [kind |-> "none"]

\* analyze_ticker: one iteration of `for strat in STRATEGIES`
TryStrategy ==
    /\ ret = Running
    /\ idx <= Len(STRATEGIES)
    /\ ran' = Append(ran, STRATEGIES[idx])
    /\ IF outcomes[idx].kind = "raise"
       THEN /\ idx' = AfterRaise(idx)
            /\ UNCHANGED <<best_strat, best_win_rate>>
       ELSE LET b == Update([strat |-> best_strat, win_rate |-> best_win_rate],
                            STRATEGIES[idx], outcomes[idx])
            IN  /\ best_strat' = b.strat
                /\ best_win_rate' = b.win_rate
                /\ idx' = idx + 1
    /\ UNCHANGED <<bars, outcomes, a_df, a_mode, ret, app_i, results, app_best, notSel>>

\* analyze_ticker after the loop: default, signal, report
Report ==
    /\ ret = Running
    /\ idx > Len(STRATEGIES)
    /\ ret' = BuildReport(a_df, a_mode, [strat |-> best_strat, win_rate |-> best_win_rate])
    /\ UNCHANGED <<bars, outcomes, a_df, a_mode, idx, ran, best_strat, best_win_rate,
                   app_i, results, app_best, notSel>>

\* AI tab: one iteration of `for i, strat in enumerate(STRATEGIES)`; a
\* candidate that raises adds no row (except: pass)
AppTryStrategy ==
    /\ app_best = Running
    /\ app_i <= Len(STRATEGIES)
    /\ results' =
          IF outcomes[app_i].kind = "raise" THEN results
          ELSE Append(results,
                      [name |-> STRATEGIES[app_i],
                       win_rate |-> outcomes[app_i].win_rate,
                       ret |-> outcomes[app_i].ret,
                       action |-> app_check_current_signal(STRATEGIES[app_i], a_df).action])
    /\ app_i' = app_i + 1
    /\ UNCHANGED <<bars, outcomes, a_df, a_mode, idx, ran, best_strat, best_win_rate, ret,
                   app_best, notSel>>

\* a sort in ascending order of the win rate
SortsBeforeAscending(a, b) ==
    a.win_rate # NaN /\ (b.win_rate = NaN \/ a.win_rate < b.win_rate)

\* row a sorts strictly before row b under
\* sort_values("勝率", ascending=False): higher first, NaN last
SortsBefore(a, b) ==
    a.win_rate # NaN /\ (b.win_rate = NaN \/ a.win_rate > b.win_rate)

\* the orders sort_values can leave the rows in: the default sort is not
\* stable, rows of equal win rate come in any order
SortValues(rows) ==
    { [i \in 1..Len(rows) |-> rows[p[i]]] :
        p \in { q \in [1..Len(rows) -> 1..Len(rows)] :
                  /\ \A i, j \in 1..Len(rows) : i # j => q[i] # q[j]
                  /\ \A i, j \in 1..Len(rows) :
                        i < j => ~SortsBefore(rows[q[j]], rows[q[i]]) } }

Failed == [kind |-> "error"]

\* AI tab after the loop: the error message when no row was collected, else
\* best = res_df.iloc[0] of the sorted rows
AppPick ==
    /\ app_best = Running
    /\ app_i > Len(STRATEGIES)
    /\ IF results = <<>>
       THEN app_best' = Failed
       ELSE \E sorted \in SortValues(results) :
                app_best' = [kind |-> "best", row |-> sorted[1]]
    /\ UNCHANGED <<bars, outcomes, a_df, a_mode, idx, ran, best_strat, best_win_rate, ret,
                   app_i, results, notSel>>

SelNext == TryStrategy \/ Report \/ AppTryStrategy \/ AppPick

----------------------------------------------------------------------------
(* Helpers over the outcomes of the candidates *)

Candidates == 1..Len(STRATEGIES)

IndexOf(name) == CHOOSE i \in Candidates : STRATEGIES[i] = name

\* the candidate's backtest returned stats
Returned(o, i) == o[i].kind = "stats"

\* the candidate closed at least one trade
Traded(o, i) == Returned(o, i) /\ o[i].win_rate # NaN

LoopDone == idx > Len(STRATEGIES)

AppLoopDone == app_i > Len(STRATEGIES)

\* the strategy analyze_ticker goes on with after the loop
Chosen == IF best_strat = "None" THEN "SMA" ELSE best_strat

\* the candidates that did not raise, in the order of STRATEGIES
NonRaising(o) == SelectSeq(<<1, 2, 3, 4>>, LAMBDA i : Returned(o, i))

RECURSIVE SelectOver(_, _, _, _)
\* the selection over the candidates cands[k..] alone, from best b
SelectOver(o, cands, k, b) ==
    IF k > Len(cands) THEN b
    ELSE SelectOver(o, cands, k + 1, Update(b, STRATEGIES[cands[k]], o[cands[k]]))

----------------------------------------------------------------------------
(* The scans: notify.main over the sheets, batch_analysis.main over TICKERS *)

\* instruments per list
MaxTickers == 2

\* no value (Python None)
None == -998

\* what a run meets for one instrument: yf.download raises, returns an empty
\* frame, or returns `bars` rows whose last two are `df`; `outcomes` is what
\* the backtests of the candidates then give
Instrument(fetch, n, o, frame) ==
    [fetch |-> fetch, bars |-> n, outcomes |-> o, df |-> frame, name_len |-> 3]

\* the instrument under a name of k characters (the Name column of the sheet)
Named(t, k) == [t EXCEPT !.name_len = k]

Instruments ==
    { Instrument("error", 0, <<>>, <<>>), Instrument("empty", 0, <<>>, <<>>),
      Instrument("ok", 10, <<Raise, Raise, Raise, Raise>>, FrameOf(HoldFrame, 10)),
      Instrument("ok", 25, <<Stats(NaN, 0), Stats(50, 10), Raise, Raise>>,
                 FrameOf(BuyFrame, 25)) }
    \cup { Instrument("ok", 40, <<Stats(50, 10), Stats(0, -10), Stats(NaN, 0), Raise>>,
                      FrameOf(shape, 40)) : shape \in Shapes }

RECURSIVE SeqsUpTo(_, _)
\* the sequences over S of at most n elements
SeqsUpTo(S, n) ==
    IF n = 0 THEN {<<>>}
    ELSE SeqsUpTo(S, n - 1) \cup { Append(q, x) : q \in { r \in SeqsUpTo(S, n - 1) : Len(r) = n - 1 }, x \in S }

\* analyze_ticker(ticker, name, mode): None when the frame is empty, the
\* error text when anything raises, else the report of BuildReport
analyze_ticker(t, m) ==
    IF t.fetch = "error" THEN [kind |-> "error"]
    ELSE IF t.fetch = "empty" THEN [kind |-> "none"]
    ELSE BuildReport(t.df, m, SelectOver(t.outcomes, NonRaising(t.outcomes), 1, NoBest))

\* safe_float(val): None for NaN (and for what float() refuses)
safe_float(val) == IF val = NaN THEN None ELSE val

\* row.get(k): NaN stands for a missing column as well
get(row, k) == IF k \in DOMAIN row THEN row[k] ELSE NaN

\* signals judged indicator by indicator: the RSI when it is present, the
\* cross when the four averages are
TickerSignalsPartial(rsi, sma5, sma25, prev_sma5, prev_sma25) ==
    LET has_rsi == rsi # None
        has_sma == None \notin {sma5, sma25, prev_sma5, prev_sma25}
        low == has_rsi /\ rsi < 30
        high == has_rsi /\ rsi > 70
        golden == has_sma /\ prev_sma5 < prev_sma25 /\ sma5 > sma25
        dead == has_sma /\ prev_sma5 > prev_sma25 /\ sma5 < sma25
    IN  [signals |-> (IF low THEN <<"oversold">> ELSE IF high THEN <<"overbought">> ELSE <<>>)
                       \o (IF golden THEN <<"golden cross">>
                           ELSE IF dead THEN <<"dead cross">> ELSE <<>>),
         signal_color |-> IF golden THEN "#ff0000" ELSE IF dead THEN "#0000ff"
                          ELSE IF low THEN "#0000ff" ELSE IF high THEN "#ff0000"
                          ELSE "#555555"]

\* signals in which the RSI is judged after the cross: its label comes last
\* and its colour is the one kept
TickerSignalsRsiLast(rsi, sma5, sma25, prev_sma5, prev_sma25) ==
    IF None \in {rsi, sma5, sma25, prev_sma5, prev_sma25}
    THEN [signals |-> <<>>, signal_color |-> "#555555"]
    ELSE LET x == IF prev_sma5 < prev_sma25 /\ sma5 > sma25 THEN <<"golden cross">>
                  ELSE IF prev_sma5 > prev_sma25 /\ sma5 < sma25 THEN <<"dead cross">>
                  ELSE <<>>
             xc == IF prev_sma5 < prev_sma25 /\ sma5 > sma25 THEN "#ff0000"
                   ELSE IF prev_sma5 > prev_sma25 /\ sma5 < sma25 THEN "#0000ff"
                   ELSE "#555555"
         IN  [signals |-> x \o (IF rsi < 30 THEN <<"oversold">>
                                ELSE IF rsi > 70 THEN <<"overbought">> ELSE <<>>),
              signal_color |-> IF rsi < 30 THEN "#0000ff"
                               ELSE IF rsi > 70 THEN "#ff0000" ELSE xc]

\* the signals and the colour get_ticker_data derives from the indicators
TickerSignals(rsi, sma5, sma25, prev_sma5, prev_sma25) ==
    IF None \in {rsi, sma5, sma25, prev_sma5, prev_sma25}
    THEN [signals |-> <<>>, signal_color |-> "#555555"]
    ELSE LET r == IF rsi < 30 THEN <<"oversold">>
                  ELSE IF rsi > 70 THEN <<"overbought">> ELSE <<>>
             rc == IF rsi < 30 THEN "#0000ff"
                   ELSE IF rsi > 70 THEN "#ff0000" ELSE "#555555"
             x == IF prev_sma5 < prev_sma25 /\ sma5 > sma25 THEN <<"golden cross">>
                  ELSE IF prev_sma5 > prev_sma25 /\ sma5 < sma25 THEN <<"dead cross">>
                  ELSE <<>>
             xc == IF prev_sma5 < prev_sma25 /\ sma5 > sma25 THEN "#ff0000"
                   ELSE IF prev_sma5 > prev_sma25 /\ sma5 < sma25 THEN "#0000ff"
                   ELSE rc
         IN  [signals |-> r \o x, signal_color |-> xc]

\* get_ticker_data(ticker): the record of the instrument, or None
get_ticker_data(t) ==
    IF t.fetch = "error" THEN [kind |-> "none"]
    ELSE IF t.fetch = "empty" \/ t.bars < 25 THEN [kind |-> "none"]
    ELSE LET latest == t.df[Len(t.df)]
             prev == t.df[Len(t.df) - 1]
             close == safe_float(get(latest, "Close"))
             rsi == safe_float(get(latest, "RSI_14"))
             sma5 == safe_float(get(latest, "SMA_5"))
             sma25 == safe_float(get(latest, "SMA_25"))
             prev_sma5 == safe_float(get(prev, "SMA_5"))
             prev_sma25 == safe_float(get(prev, "SMA_25"))
             sg == TickerSignals(rsi, sma5, sma25, prev_sma5, prev_sma25)
         IN  IF close = None THEN [kind |-> "none"]
             ELSE [kind |-> "data", close |-> close,
                   rsi |-> IF rsi # None THEN rsi ELSE 0,
                   sma5 |-> IF sma5 # None THEN sma5 ELSE 0,
                   sma25 |-> IF sma25 # None THEN sma25 ELSE 0,
                   signals |-> sg.signals, signal_color |-> sg.signal_color]

\* `if rep:` / `if data:` -- None is falsy, a report, an error text and a
\* record are not
Truthy(r) == r.kind # "none"

ScanStart ==
    /\ holdings \in SeqsUpTo(Instruments, MaxTickers)
    /\ watchlist \in SeqsUpTo(Instruments, MaxTickers)
    /\ n_pc = "holdings"
    /\ n_i = 1
    /\ analysed = <<>>
    /\ reports = IF holdings # <<>> THEN <<[kind |-> "holdings header"]>> ELSE <<>>
    /\ watch_reports = <<>>
    /\ sent = <<>>
    /\ tickers = holdings \o watchlist
    /\ b_i = 1
    /\ fetched = <<>>
    /\ b_results = <<>>

ScanIdle ==
    /\ holdings = <<>>
    /\ watchlist = <<>>
    /\ n_pc = "done"
    /\ n_i = 1
    /\ analysed = <<>>
    /\ reports = <<>>
    /\ watch_reports = <<>>
    /\ sent = <<>>
    /\ tickers = <<>>
    /\ b_i = 1
    /\ fetched = <<>>
    /\ b_results = <<>>

\* an entry of reports / watch_reports: the report or error text of the
\* instrument i of its list
Entry(list, i, r) == [kind |-> r.kind, list |-> list, ticker |-> i, rep |-> r]

\* notify.main: one iteration of `for code, name in holdings.items()`
AnalyseHolding ==
    /\ n_pc = "holdings"
    /\ n_i <= Len(holdings)
    /\ LET r == analyze_ticker(holdings[n_i], "holding")
       IN  reports' = IF Truthy(r) THEN Append(reports, Entry("holdings", n_i, r))
                      ELSE reports
    /\ analysed' = Append(analysed, <<"holdings", n_i>>)
    /\ n_i' = n_i + 1
    /\ UNCHANGED <<holdings, watchlist, n_pc, watch_reports, sent,
                   tickers, b_i, fetched, b_results, notScan>>

\* notify.main: the holdings are done, the watchlist is next
StartWatchlist ==
    /\ n_pc = "holdings"
    /\ n_i > Len(holdings)
    /\ n_pc' = "watchlist"
    /\ n_i' = 1
    /\ UNCHANGED <<holdings, watchlist, analysed, reports, watch_reports, sent,
                   tickers, b_i, fetched, b_results, notScan>>

\* notify.main: one iteration of `for code, name in watchlist.items()`
AnalyseWatched ==
    /\ n_pc = "watchlist"
    /\ n_i <= Len(watchlist)
    /\ LET r == analyze_ticker(watchlist[n_i], "watching")
       IN  watch_reports' = IF Truthy(r) THEN Append(watch_reports, Entry("watchlist", n_i, r))
                            ELSE watch_reports
    /\ analysed' = Append(analysed, <<"watchlist", n_i>>)
    /\ n_i' = n_i + 1
    /\ UNCHANGED <<holdings, watchlist, n_pc, reports, sent,
                   tickers, b_i, fetched, b_results, notScan>>

\* the instrument an entry of reports is about
InstrumentOf(e) ==
    IF e.list = "holdings" THEN holdings[e.ticker] ELSE watchlist[e.ticker]

\* len(full_message) > 2000
MsgLimit == 2000

\* characters of the two heading lines of full_message
PrefixChars == 45

\* characters of "\n...(省略)..."
SuffixChars == 11

\* characters of one element of reports: a section header, a report (its
\* fixed lines and the name), an error text
EntryChars(e) ==
    CASE e.kind = "holdings header" -> 14
      [] e.kind = "watchlist header" -> 15
      [] e.kind = "report" -> 74 + InstrumentOf(e).name_len
      [] OTHER -> 10 + InstrumentOf(e).name_len

RECURSIVE JoinedChars(_, _)
\* len("\n".join(rs[k..]))
JoinedChars(rs, k) ==
    IF k > Len(rs) THEN 0
    ELSE EntryChars(rs[k]) + (IF k < Len(rs) THEN 1 ELSE 0) + JoinedChars(rs, k + 1)

\* a message that is pushed whole whatever its length
PushedWhole(n) == n

\* the length of the text handed to send_line_push for a message of n
\* characters: full_message[:2000] + suffix when it is longer than 2000
Pushed(n) == IF n > MsgLimit THEN MsgLimit + SuffixChars ELSE n

\* notify.main after the loops: the watchlist section is appended when it
\* has reports, and one message is pushed unless there is nothing to report
Send ==
    /\ n_pc = "watchlist"
    /\ n_i > Len(watchlist)
    /\ LET all == IF watch_reports # <<>>
                  THEN reports \o <<[kind |-> "watchlist header"]>> \o watch_reports
                  ELSE reports
       IN  /\ reports' = all
           /\ sent' = IF all = <<>> THEN sent
                      ELSE Append(sent, [reports |-> all,
                                         chars |-> Pushed(PrefixChars + JoinedChars(all, 1))])
    /\ n_pc' = "done"
    /\ UNCHANGED <<holdings, watchlist, n_i, analysed, watch_reports,
                   tickers, b_i, fetched, b_results, notScan>>

\* batch_analysis.main: one iteration of `for ticker in TICKERS`
FetchTicker ==
    /\ b_i <= Len(tickers)
    /\ LET data == get_ticker_data(tickers[b_i])
       IN  b_results' = IF Truthy(data) THEN Append(b_results, [ticker |-> b_i, data |-> data])
                        ELSE b_results
    /\ fetched' = Append(fetched, b_i)
    /\ b_i' = b_i + 1
    /\ UNCHANGED <<holdings, watchlist, n_pc, n_i, analysed, reports, watch_reports,
                   sent, tickers, notScan>>

\* notify.main alone, over sheets whose names may be long
NotifyInstruments ==
    { Instrument("error", 0, <<>>, <<>>), Instrument("empty", 0, <<>>, <<>>),
      Instrument("ok", 40, <<Stats(50, 10), Stats(0, -10), Stats(NaN, 0), Raise>>,
                 FrameOf(HoldFrame, 40)),
      Named(Instrument("ok", 40, <<Stats(50, 10), Stats(0, -10), Stats(NaN, 0), Raise>>,
                       FrameOf(BuyFrame, 40)), 1990) }

NotifyStart ==
    /\ holdings \in SeqsUpTo(NotifyInstruments, MaxTickers)
    /\ watchlist \in SeqsUpTo(NotifyInstruments, MaxTickers)
    /\ n_pc = "holdings"
    /\ n_i = 1
    /\ analysed = <<>>
    /\ reports = IF holdings # <<>> THEN <<[kind |-> "holdings header"]>> ELSE <<>>
    /\ watch_reports = <<>>
    /\ sent = <<>>
    /\ tickers = <<>>
    /\ b_i = 1
    /\ fetched = <<>>
    /\ b_results = <<>>

NotifyNext == AnalyseHolding \/ StartWatchlist \/ AnalyseWatched \/ Send

ScanNext == AnalyseHolding \/ StartWatchlist \/ AnalyseWatched \/ Send \/ FetchTicker

----------------------------------------------------------------------------
(* One call of batch_analysis.get_ticker_data *)

Pending == [kind |-> "pending"]

\* values of the columns get_ticker_data reads; a NaN close inside the
\* series leaves any of them missing
TickerCloses == {NaN, 100}
TickerRsis == {NaN, 25, 50, 75}

\* series lengths around the guard of get_ticker_data
TickerLengths == {24, 25, 26, 40}

TickerFrames ==
    { <<Row(100, pa, pb, 50, 0, 0, 90, 110), Row(c, a, b, r, 0, 0, 90, 110)>> :
        <<pa, pb, a, b>> \in SmaVals \X SmaVals \X SmaVals \X SmaVals,
        c \in TickerCloses, r \in TickerRsis }

TickerInputs ==
    { Instrument("error", 0, <<>>, <<>>), Instrument("empty", 0, <<>>, <<>>) }
    \cup { Instrument("ok", n, <<>>, FrameOf(f, n)) : n \in TickerLengths, f \in TickerFrames }

TickerStart == t_in \in TickerInputs /\ t_out = Pending

TickerIdle == t_in = Instrument("empty", 0, <<>>, <<>>) /\ t_out = [kind |-> "none"]

\* data = get_ticker_data(ticker)
GetTickerData ==
    /\ t_out = Pending
    /\ t_out' = get_ticker_data(t_in)
    /\ UNCHANGED <<t_in, notTicker>>

TickerNext == GetTickerData

----------------------------------------------------------------------------
(* One call of notify.analyze_ticker *)

\* a series of one row: df.iloc[-2] does not exist; no backtest can run
OneRow == Instrument("ok", 1, <<Raise, Raise, Raise, Raise>>, <<HoldFrame[2]>>)

\* a series whose latest row has no price yet: every column of it is NaN
NoClose ==
    Instrument("ok", 40, <<Stats(50, 10), Stats(0, -10), Stats(NaN, 0), Raise>>,
               <<HoldFrame[1], Row(NaN, NaN, NaN, NaN, NaN, NaN, NaN, NaN)>>)

AnalyseInputs ==
    { Instrument("error", 0, <<>>, <<>>), Instrument("empty", 0, <<>>, <<>>),
      OneRow, NoClose }
    \cup UNION { { Instrument("ok", n, o, FrameOf(shape, n)) :
                     shape \in Shapes, o \in OutcomesOf(n) } : n \in SeriesLengths }

AnStart ==
    /\ an_in \in AnalyseInputs
    /\ an_mode \in Modes
    /\ an_out = Pending

AnIdle ==
    /\ an_in = Instrument("empty", 0, <<>>, <<>>)
    /\ an_mode = "holding"
    /\ an_out = [kind |-> "none"]

\* rep = analyze_ticker(code, name, mode=...)
AnalyzeTicker ==
    /\ an_out = Pending
    /\ an_out' = analyze_ticker(an_in, an_mode)
    /\ UNCHANGED <<an_in, an_mode, notAn>>

AnNext == AnalyzeTicker

----------------------------------------------------------------------------
(* The selection made twice over the same series and candidates *)

Off == [kind |-> "off"]

TwiceIdle == best2 = Off /\ app_best2 = Off

TwiceStart == best2 = Running /\ app_best2 = Running

\* analyze_ticker called a second time on the same series: the same
\* backtests return the same outcomes, and the loop runs over them again
SelectAgain ==
    /\ best2 = Running
    /\ best2' = [kind |-> "best",
                 best |-> SelectOver(outcomes, NonRaising(outcomes), 1, NoBest)]
    /\ UNCHANGED <<selVars, app_best2, notTwice>>

\* the AI tab run a second time on the same series: the same rows are
\* collected and sorted again
AppPickAgain ==
    /\ app_best2 = Running
    /\ AppLoopDone
    /\ IF results = <<>>
       THEN app_best2' = Failed
       ELSE \E sorted \in SortValues(results) :
                app_best2' = [kind |-> "best", row |-> sorted[1]]
    /\ UNCHANGED <<selVars, best2, notTwice>>

TwiceNext == SelNext \/ SelectAgain \/ AppPickAgain

----------------------------------------------------------------------------
(* check_current_signal on any input: names outside the registry, frames   *)
(* of fewer than two rows, rows without some of the columns                *)

AnyNames == StrategyNames \cup {"unknown"}

\* the row without the columns cols
Drop(row, cols) == [k \in DOMAIN row \ cols |-> row[k]]

\* the groups of columns one call of df.ta appends (none of a group is
\* appended when the series is shorter than the lookback)
ColumnGroups ==
    { {"Close"}, {"SMA_25"}, {"RSI_14"},
      {"MACD_12_26_9", "MACDh_12_26_9", "MACDs_12_26_9"},
      {"BBL_20_2.0", "BBM_20_2.0", "BBU_20_2.0"},
      {"SMA_25", "RSI_14", "MACD_12_26_9", "MACDh_12_26_9", "MACDs_12_26_9",
       "BBL_20_2.0", "BBM_20_2.0", "BBU_20_2.0"} }

AnyFrames ==
    UNION { FramesOf(n) : n \in StrategyNames }
    \cup Shapes
    \cup { <<>>, <<HoldFrame[1]>>, <<BuyFrame[2]>> }
    \cup { <<Drop(f[1], c), Drop(f[2], c)>> : f \in Shapes, c \in ColumnGroups }
    \cup { <<Drop(f[1], {"Close"}), f[2]>> : f \in Shapes }

EvalStart ==
    /\ strategy_name \in AnyNames
    /\ df \in AnyFrames
    /\ mode \in Modes
    /\ sig = NoResult
    /\ app_sig = NoResult
    /\ step = "done"

EvalNext == Evaluate \/ AppEvaluate

----------------------------------------------------------------------------
(* Specifications *)

SigInit == SigStart /\ BtIdle /\ SelIdle /\ ScanIdle /\ TwiceIdle /\ TickerIdle /\ AnIdle

SpecSignal == SigInit /\ [][SigNext]_vars

BtInit == BtStart /\ SigIdle /\ SelIdle /\ ScanIdle /\ TwiceIdle /\ TickerIdle /\ AnIdle

SpecBacktest == BtInit /\ [][BtNext]_vars

SelInit == SelStart /\ SigIdle /\ BtIdle /\ ScanIdle /\ TwiceIdle /\ TickerIdle /\ AnIdle

SpecSelect == SelInit /\ [][SelNext]_vars

TwiceInit == SelStart /\ SigIdle /\ BtIdle /\ ScanIdle /\ TwiceStart /\ TickerIdle /\ AnIdle

SpecTwice == TwiceInit /\ [][TwiceNext]_vars

TickerInit ==
    TickerStart /\ SigIdle /\ BtIdle /\ SelIdle /\ ScanIdle /\ TwiceIdle /\ AnIdle

AnInit ==
    AnStart /\ SigIdle /\ BtIdle /\ SelIdle /\ ScanIdle /\ TwiceIdle /\ TickerIdle

SpecAnalyze == AnInit /\ [][AnNext]_vars

SpecTicker == TickerInit /\ [][TickerNext]_vars

NotifyInit ==
    /\ NotifyStart /\ SigIdle /\ BtIdle /\ SelIdle
    /\ TwiceIdle /\ TickerIdle /\ AnIdle

SpecNotify == NotifyInit /\ [][NotifyNext]_vars

EvalInit == EvalStart /\ BtIdle /\ SelIdle /\ ScanIdle /\ TwiceIdle /\ TickerIdle /\ AnIdle

SpecEvaluate == EvalInit /\ [][EvalNext]_vars

ScanInit == ScanStart /\ SigIdle /\ BtIdle /\ SelIdle /\ TwiceIdle /\ TickerIdle /\ AnIdle

SpecScan == ScanInit /\ [][ScanNext]_vars

----------------------------------------------------------------------------
(* Claim on the backtest run (SpecBacktest) *)

EntryCondition(name, frame) ==
    CASE name = "SMA" -> crossover(col(frame, "SMA_5"), col(frame, "SMA_25"))
      [] name = "RSI" -> crossover(col(frame, "RSI_14"), const(RsiLower))
      [] name = "MACD" -> crossover(col(frame, MacdColumns[1]), col(frame, MacdColumns[2]))
      [] name = "BB" -> lt(frame[Len(frame)]["Close"], frame[Len(frame)][BbColumns[1]])

ExitCondition(name, frame) ==
    CASE name = "SMA" -> crossover(col(frame, "SMA_25"), col(frame, "SMA_5"))
      [] name = "RSI" -> crossover(const(RsiUpper), col(frame, "RSI_14"))
      [] name = "MACD" -> crossover(col(frame, MacdColumns[2]), col(frame, MacdColumns[1]))
      [] name = "BB" -> gt(frame[Len(frame)]["Close"], frame[Len(frame)][BbColumns[3]])

\* next() has run on a bar and the run goes on: `orders` is what it issued
\* and `trades` the position it found
BarStepped == bt_status = "running" /\ Len(bt_rows) = 2

\* C11: in every strategy's next() at most one of buy() and
\* position.close() is issued per bar, and on a bar where the position is
\* Long and the exit condition holds the position is closed, whatever the
\* entry condition evaluates to on that bar (the two conditions never hold on
\* the same bar).
C11_OneDecisionExitCloses ==
    BarStepped =>
        /\ orders \in {"buy", "close", "none"}
        /\ ~(EntryCondition(bt_class, bt_rows) /\ ExitCondition(bt_class, bt_rows))
        /\ (trades # <<>> /\ ExitCondition(bt_class, bt_rows)) => orders = "close"
        /\ orders = "close" => ExitCondition(bt_class, bt_rows)

\* a bar on which the position was Long, the exit condition held and
\* next() issued position.close()
C11_Witness ==
    /\ BarStepped /\ trades # <<>>
    /\ ExitCondition(bt_class, bt_rows) /\ orders = "close"

----------------------------------------------------------------------------
(* Claims on check_current_signal on any input (SpecEvaluate) *)

AppEvaluated == app_sig.action # "none"

\* the frame has two rows and its latest row a Close column
Readable(frame) == Len(frame) >= 2 /\ "Close" \in DOMAIN frame[Len(frame)]

\* C12 as stated: for every strategy name and every frame, frames of fewer
\* than two bars or with missing columns and names outside the registry
\* included, check_current_signal returns Buy, Sell or Hold, and Hold with
\* the reason "no signal" whenever it returns neither Buy nor Sell.
C12_ActionIsBuySellHold ==
    /\ Evaluated =>
          /\ sig.action \in {"buy", "sell", "stay"}
          /\ sig.action \notin {"buy", "sell"} => sig.reason = "no signal"
    /\ AppEvaluated =>
          /\ app_sig.action \in {"buy", "sell", "stay"}
          /\ app_sig.action \notin {"buy", "sell"} => app_sig.reason = "no signal"

\* C12 (amended): on a frame of at least two rows whose latest row has a
\* Close, check_current_signal returns Buy, Sell or Hold, Hold with the
\* reason "no signal", and Hold for a name outside the registry, absent
\* indicator columns included; on a frame of fewer than two rows or without
\* the Close it returns the fourth action "undecidable" with an error
\* reason (notify: with rsi 0 and close 0).
C12_UndecidableOnUnreadableFrame ==
    /\ Evaluated =>
          IF Readable(df)
          THEN /\ sig.action \in {"buy", "sell", "stay"}
               /\ sig.action = "stay" => sig.reason = "no signal"
               /\ strategy_name \notin StrategyNames => sig.action = "stay"
          ELSE sig = [action |-> "undecidable", reason |-> "error", rsi |-> 0, close |-> 0]
    /\ AppEvaluated =>
          IF Readable(df)
          THEN /\ app_sig.action \in {"buy", "sell", "stay"}
               /\ app_sig.action = "stay" => app_sig.reason = "no signal"
               /\ strategy_name \notin StrategyNames => app_sig.action = "stay"
          ELSE app_sig = [action |-> "undecidable", reason |-> "no data"]

\* a frame of one row on which both evaluators returned "undecidable"
C12_Witness ==
    /\ Len(df) = 1
    /\ Evaluated /\ sig.action = "undecidable"
    /\ AppEvaluated /\ app_sig.action = "undecidable"

----------------------------------------------------------------------------
(* Claims on the selection (SpecSelect) *)

\* C5 as stated: the selection returns the candidate with the highest win
\* rate, and among candidates of equal highest win rate the one with the
\* highest total return.
C5_HighestWinRateThenReturn ==
    /\ (LoopDone /\ best_strat # "None") =>
          \A j \in Candidates : Returned(outcomes, j) =>
              \/ Normalised(outcomes[j].win_rate) < best_win_rate
              \/ /\ Normalised(outcomes[j].win_rate) = best_win_rate
                 /\ outcomes[j].ret <= outcomes[IndexOf(best_strat)].ret
    /\ app_best.kind = "best" =>
          \A j \in Candidates : Returned(outcomes, j) =>
              \/ Normalised(outcomes[j].win_rate) < Normalised(app_best.row.win_rate)
              \/ /\ Normalised(outcomes[j].win_rate) = Normalised(app_best.row.win_rate)
                 /\ outcomes[j].ret <= app_best.row.ret

\* C5 (amended): the selection returns a candidate with the highest win rate
\* (a missing win rate counting as 0); among candidates of equal highest win
\* rate the total return is not consulted: analyze_ticker returns the first
\* of them in the order of STRATEGIES, the AI tab one of them.
C5_HighestWinRateFirstWins ==
    /\ (LoopDone /\ \E j \in Candidates : Returned(outcomes, j)) =>
          /\ best_strat # "None"
          /\ Returned(outcomes, IndexOf(best_strat))
          /\ best_win_rate = Normalised(outcomes[IndexOf(best_strat)].win_rate)
          /\ \A j \in Candidates : Returned(outcomes, j) =>
                /\ Normalised(outcomes[j].win_rate) <= best_win_rate
                /\ Normalised(outcomes[j].win_rate) = best_win_rate
                      => IndexOf(best_strat) <= j
    /\ app_best.kind = "best" =>
          /\ Returned(outcomes, IndexOf(app_best.row.name))
          /\ app_best.row.win_rate = outcomes[IndexOf(app_best.row.name)].win_rate
          /\ \A j \in Candidates : Returned(outcomes, j) =>
                Normalised(outcomes[j].win_rate) <= Normalised(app_best.row.win_rate)

\* the loop ended on a candidate although another of the same win rate has
\* the higher total return
C5_Witness ==
    /\ LoopDone /\ best_strat # "None"
    /\ \E j \in Candidates :
          /\ Returned(outcomes, j)
          /\ Normalised(outcomes[j].win_rate) = best_win_rate
          /\ outcomes[j].ret > outcomes[IndexOf(best_strat)].ret

\* C6: when the backtest of every candidate raises, the selection ends in an
\* error: no strategy is reported as chosen and no recommendation is made.
C6_AllRaiseIsError ==
    (\A i \in Candidates : ~Returned(outcomes, i)) =>
        /\ ret.kind # "report"
        /\ app_best.kind # "best"

\* every candidate raised and analyze_ticker reports the default strategy
\* with the win rate -1 and a recommendation
C6_Witness ==
    /\ \A i \in Candidates : ~Returned(outcomes, i)
    /\ ret.kind = "report" /\ ret.strat = "SMA" /\ ret.win_rate = -1
    /\ ret.action = "stay"

\* C7: a candidate whose backtest raises is skipped without ending the
\* selection: every candidate of STRATEGIES is run, in order, and the winner
\* is the winner of the selection over the candidates that did not raise
\* (the AI tab collects exactly their rows, in order).
C7_RaisingCandidateIsSkipped ==
    /\ LoopDone =>
          /\ ran = STRATEGIES
          /\ [strat |-> best_strat, win_rate |-> best_win_rate]
                = SelectOver(outcomes, NonRaising(outcomes), 1, NoBest)
    /\ AppLoopDone =>
          /\ Len(results) = Len(NonRaising(outcomes))
          /\ \A k \in 1..Len(results) :
                /\ results[k].name = STRATEGIES[NonRaising(outcomes)[k]]
                /\ results[k].win_rate = outcomes[NonRaising(outcomes)[k]].win_rate
                /\ results[k].ret = outcomes[NonRaising(outcomes)[k]].ret

\* a candidate raised and a later candidate won, in the loop and in the tab
C7_Witness ==
    /\ LoopDone /\ best_strat # "None"
    /\ \E i \in Candidates : ~Returned(outcomes, i) /\ i < IndexOf(best_strat)
    /\ app_best.kind = "best"
    /\ \E i \in Candidates : ~Returned(outcomes, i) /\ i < IndexOf(app_best.row.name)

\* what analyze_ticker hands to the report for the outcomes o: the strategy
\* name and the best win rate
Handed(o) ==
    LET b == SelectOver(o, NonRaising(o), 1, NoBest)
    IN  <<IF b.strat = "None" THEN "SMA" ELSE b.strat, b.win_rate>>

\* C8: when no candidate closes any trade the selection returns the first
\* candidate of STRATEGIES as the default, and the value handed to the caller
\* (strategy name and best win rate) differs from every value handed over
\* when a candidate that did trade was chosen.
C8_DefaultIsDistinguishable ==
    (LoopDone /\ \A i \in Candidates : ~Traded(outcomes, i)) =>
        /\ Chosen = STRATEGIES[1]
        /\ \A o \in OutcomeCombos :
              Traded(o, IndexOf(Handed(o)[1])) => Handed(o) # <<Chosen, best_win_rate>>

\* no candidate traded, and the name and win rate handed over are those of
\* a selection in which the first candidate traded and won with 0
C8_Witness ==
    /\ LoopDone /\ \A i \in Candidates : ~Traded(outcomes, i)
    /\ <<Chosen, best_win_rate>> = <<"SMA", 0>>
    /\ \E o \in OutcomeCombos : Traded(o, 1) /\ Handed(o) = <<"SMA", 0>>

\* C15: the win rate used to rank and to report a candidate is 0 whenever
\* the candidate closed no trade: such a candidate is ranked exactly like a
\* candidate with a win rate of 0, in the loop of analyze_ticker and in the
\* results table of the AI tab.
C15_NoTradeCountsAsZero ==
    /\ (LoopDone /\ best_strat # "None" /\ ~Traded(outcomes, IndexOf(best_strat)))
          => best_win_rate = 0
    /\ \A k \in 1..Len(results) :
          ~Traded(outcomes, IndexOf(results[k].name)) => results[k].win_rate = 0
    /\ \A k, l \in 1..Len(results) :
          (results[k].win_rate = 0 /\ ~Traded(outcomes, IndexOf(results[l].name)))
              => ~SortsBefore(results[k], results[l])

\* no candidate closed a trade: the loop of analyze_ticker ends with the win
\* rate 0, the best row of the AI tab carries a missing win rate
C15_Witness ==
    /\ LoopDone /\ best_strat # "None" /\ best_win_rate = 0
    /\ \A i \in Candidates : ~Traded(outcomes, i)
    /\ app_best.kind = "best" /\ app_best.row.win_rate = NaN

----------------------------------------------------------------------------
(* Claims on the selection made twice (SpecTwice) *)

\* both calls of analyze_ticker are through their loops
BothSelected == LoopDone /\ best2.kind = "best"

\* both runs of the AI tab have their best row
BothPicked == app_best.kind = "best" /\ app_best2.kind = "best"

\* candidate i beats or equals every candidate that returned, by win rate,
\* then by total return, then by the order of STRATEGIES
WinsByReturnThenOrder(i) ==
    \A j \in Candidates : Returned(outcomes, j) =>
        LET wi == Normalised(outcomes[i].win_rate)
            wj == Normalised(outcomes[j].win_rate)
        IN  \/ wj < wi
            \/ wj = wi /\ outcomes[j].ret < outcomes[i].ret
            \/ wj = wi /\ outcomes[j].ret = outcomes[i].ret /\ i <= j

----------------------------------------------------------------------------
(* Claims on get_ticker_data (SpecTicker) *)

\* the call has returned
Fetched == t_out # Pending

\* the call got past the download and the length guard
PastGuards == t_in.fetch = "ok" /\ t_in.bars >= 25

\* the column k of the latest (back = 0) or previous (back = 1) row is
\* missing
Absent(back, k) == t_in.df[Len(t_in.df) - back][k] = NaN

\* one of the five indicators get_ticker_data reads is missing
SomeIndicatorAbsent ==
    \/ Absent(0, "RSI_14") \/ Absent(0, "SMA_5") \/ Absent(0, "SMA_25")
    \/ Absent(1, "SMA_5") \/ Absent(1, "SMA_25")

\* C16: get_ticker_data judges signals only when all indicators are
\* present: if any of RSI, latest SMA5, latest SMA25, previous SMA5 or
\* previous SMA25 is missing, the signals list is empty, while the record is
\* still returned, the missing indicators reported as 0, whenever the close
\* is present.
C16_SignalsNeedAllIndicators ==
    (Fetched /\ PastGuards) =>
        /\ (t_out.kind = "data") <=> ~Absent(0, "Close")
        /\ t_out.kind = "data" =>
              /\ SomeIndicatorAbsent => t_out.signals = <<>>
              /\ t_out.close = t_in.df[2]["Close"]
              /\ t_out.rsi = IF Absent(0, "RSI_14") THEN 0 ELSE t_in.df[2]["RSI_14"]
              /\ t_out.sma5 = IF Absent(0, "SMA_5") THEN 0 ELSE t_in.df[2]["SMA_5"]
              /\ t_out.sma25 = IF Absent(0, "SMA_25") THEN 0 ELSE t_in.df[2]["SMA_25"]

\* a record returned with an oversold RSI, a missing previous SMA25 (a
\* series of 25 rows) and no signal
C16_Witness ==
    /\ Fetched /\ PastGuards /\ t_in.bars = 25
    /\ t_out.kind = "data"
    /\ t_out.rsi = 25 /\ Absent(1, "SMA_25") /\ ~Absent(0, "SMA_25")
    /\ t_out.signals = <<>>

RsiLabels == {"oversold", "overbought"}
CrossLabels == {"golden cross", "dead cross"}

\* the colour get_ticker_data sets with a label
LabelColor(label) ==
    IF label \in {"oversold", "dead cross"} THEN "#0000ff" ELSE "#ff0000"

\* C19: every record returned by get_ticker_data has signal_color equal to
\* the default "#555555" if and only if signals is empty; signals holds at
\* most one RSI label and at most one cross label, in that order; and when
\* both are present the colour is the colour of the cross label.
C19_ColorFollowsSignals ==
    (Fetched /\ t_out.kind = "data") =>
        /\ (t_out.signal_color = "#555555") <=> (t_out.signals = <<>>)
        /\ \/ t_out.signals = <<>>
           \/ \E r \in RsiLabels :
                 t_out.signals = <<r>> /\ t_out.signal_color = LabelColor(r)
           \/ \E x \in CrossLabels :
                 t_out.signals = <<x>> /\ t_out.signal_color = LabelColor(x)
           \/ \E r \in RsiLabels, x \in CrossLabels :
                 t_out.signals = <<r, x>> /\ t_out.signal_color = LabelColor(x)

\* a record with an oversold RSI (blue) and a golden cross (red): both
\* labels, the colour of the cross
C19_Witness ==
    /\ Fetched /\ t_out.kind = "data"
    /\ t_out.signals = <<"oversold", "golden cross">>
    /\ t_out.signal_color = "#ff0000"

----------------------------------------------------------------------------
(* Claims on analyze_ticker (SpecAnalyze) *)

Analysed == an_out # Pending

\* the action check_current_signal gives for the instrument under the
\* strategy the selection hands over
EvaluatedAction ==
    check_current_signal(Handed(an_in.outcomes)[1], an_in.df).action

\* C17 as stated: an instrument analysed in mode "watching" yields a report
\* only if the evaluated action is a buy or a sell, a hold or an
\* undeterminable result yielding None; the same instrument in mode
\* "holding" always yields a report with the reason line, whatever the
\* action.
C17_WatchingReportsOnlySignals ==
    (Analysed /\ an_in.fetch = "ok") =>
        /\ an_mode = "watching" =>
              /\ an_out.kind = "report" => EvaluatedAction \in {"buy", "sell"}
              /\ EvaluatedAction \in {"stay", "undecidable"} => an_out.kind = "none"
        /\ an_mode = "holding" => (an_out.kind = "report" /\ an_out.reason # "")

\* the frame has two rows and a number as its latest close
Priced(frame) == Readable(frame) /\ frame[Len(frame)]["Close"] # NaN

\* C17 (amended): on a series of at least two rows with a latest close, an
\* instrument analysed in mode "watching" yields a report exactly when the
\* evaluated action is a buy or a sell, and None on a hold; in mode
\* "holding" it yields a report with the reason line whatever the action.
\* An undeterminable evaluation (fewer than two rows) or a missing close
\* yields the error text, in both modes; an empty download yields None and a
\* failed download the error text, in both modes.
C17_WatchingSkipsHoldErrorsAreText ==
    Analysed =>
        CASE an_in.fetch = "error" -> an_out.kind = "error"
          [] an_in.fetch = "empty" -> an_out.kind = "none"
          [] OTHER ->
                IF ~Priced(an_in.df) THEN an_out.kind = "error"
                ELSE /\ an_mode = "watching" =>
                          IF EvaluatedAction \in {"buy", "sell"}
                          THEN /\ an_out.kind = "report"
                               /\ an_out.action = EvaluatedAction
                               /\ an_out.reason # ""
                          ELSE an_out.kind = "none"
                     /\ an_mode = "holding" =>
                          /\ an_out.kind = "report"
                          /\ an_out.action = EvaluatedAction
                          /\ an_out.reason # ""

\* a watched instrument with a series of one row: the evaluation is
\* undeterminable and analyze_ticker returns the error text
C17_Witness ==
    /\ Analysed /\ an_mode = "watching" /\ an_in.fetch = "ok"
    /\ Len(an_in.df) = 1
    /\ EvaluatedAction = "undecidable"
    /\ an_out.kind = "error"

----------------------------------------------------------------------------
(* Claims on notify.main (SpecNotify) *)

\* the section of the message an element of reports belongs to
Section(e) ==
    CASE e.kind = "holdings header" -> "holdings"
      [] e.kind = "watchlist header" -> "watchlist"
      [] OTHER -> e.list

\* a watchlist instrument for which analyze_ticker returns something
SomeWatchedReports ==
    \E i \in 1..Len(watchlist) : Truthy(analyze_ticker(watchlist[i], "watching"))

\* C18: with the sheet configuration present every run of notify.main calls
\* send_line_push at most once: exactly once when the holdings list is not
\* empty or a watchlist instrument produced a report, and not at all
\* otherwise; the text is never longer than 2000 characters plus the
\* truncation suffix, and the holdings section precedes the watchlist
\* section.
C18_OnePushBoundedOrdered ==
    /\ Len(sent) <= 1
    /\ n_pc # "done" => sent = <<>>
    /\ n_pc = "done" =>
          (Len(sent) = 1) <=> (holdings # <<>> \/ SomeWatchedReports)
    /\ \A m \in 1..Len(sent) :
          /\ sent[m].chars <= MsgLimit + SuffixChars
          /\ sent[m].chars > MsgLimit =>
                PrefixChars + JoinedChars(sent[m].reports, 1) > MsgLimit
          /\ \A j, k \in 1..Len(sent[m].reports) :
                (j < k /\ Section(sent[m].reports[j]) = "watchlist")
                    => Section(sent[m].reports[k]) = "watchlist"

\* one push of a message with both sections that was cut at 2000
\* characters
C18_Witness ==
    /\ n_pc = "done" /\ Len(sent) = 1
    /\ sent[1].chars = MsgLimit + SuffixChars
    /\ \E j, k \in 1..Len(sent[1].reports) :
          /\ j < k
          /\ sent[1].reports[j].kind = "report" /\ Section(sent[1].reports[j]) = "holdings"
          /\ sent[1].reports[k].kind = "report" /\ Section(sent[1].reports[k]) = "watchlist"

\* a run over an empty holdings list and a watchlist without a signal: no
\* push
C18_NoPushWitness ==
    n_pc = "done" /\ watchlist # <<>> /\ sent = <<>>

----------------------------------------------------------------------------
(* Claims on the scans (SpecScan) *)

\* the analysis of the instrument failed: yf.download raised
FetchFailed(t) == t.fetch = "error"

\* C9: in a multi-instrument scan a failure on one instrument never stops the
\* scan: every instrument is analysed, in order, and each failed instrument
\* appears as a failure entry in the collected results.
C9_FailuresAreCollected ==
    /\ n_pc = "done" =>
          /\ analysed = [i \in 1..Len(holdings) |-> <<"holdings", i>>]
                          \o [i \in 1..Len(watchlist) |-> <<"watchlist", i>>]
          /\ \A i \in 1..Len(holdings) : FetchFailed(holdings[i]) =>
                \E k \in 1..Len(reports) :
                    reports[k] = Entry("holdings", i, [kind |-> "error"])
          /\ \A i \in 1..Len(watchlist) : FetchFailed(watchlist[i]) =>
                \E k \in 1..Len(reports) :
                    reports[k] = Entry("watchlist", i, [kind |-> "error"])
    /\ b_i > Len(tickers) =>
          /\ fetched = [i \in 1..Len(tickers) |-> i]
          /\ \A i \in 1..Len(tickers) : FetchFailed(tickers[i]) =>
                \E k \in 1..Len(b_results) : b_results[k].ticker = i

\* batch_analysis.main is through TICKERS and a ticker whose download raised
\* has no entry in results
C9_Witness ==
    /\ tickers # <<>> /\ b_i > Len(tickers)
    /\ \E i \in 1..Len(tickers) :
          /\ FetchFailed(tickers[i])
          /\ \A k \in 1..Len(b_results) : b_results[k].ticker # i

\* C13: a series of fewer than 26 bars (the longest lookback plus one) is
\* rejected before any backtest step or signal evaluation: analyze_ticker
\* and get_ticker_data produce no chosen strategy, no signal and no record
\* for it.
C13_ShortSeriesIsRejected ==
    /\ \A k \in 1..Len(reports) :
          reports[k].kind = "report" => InstrumentOf(reports[k]).bars >= 26
    /\ \A k \in 1..Len(watch_reports) :
          watch_reports[k].kind = "report" => InstrumentOf(watch_reports[k]).bars >= 26
    /\ \A k \in 1..Len(b_results) : tickers[b_results[k].ticker].bars >= 26

\* a held instrument with a series of 10 bars is reported with the default
\* strategy and a recommendation, one with 25 bars with a strategy that
\* traded; get_ticker_data returns a record for a series of 25 bars
C13_Witness ==
    /\ \E k \in 1..Len(reports) :
          /\ reports[k].kind = "report"
          /\ InstrumentOf(reports[k]).bars = 10
          /\ reports[k].rep.strat = "SMA" /\ reports[k].rep.action = "stay"
    /\ \E k \in 1..Len(reports) :
          /\ reports[k].kind = "report"
          /\ InstrumentOf(reports[k]).bars = 25
          /\ reports[k].rep.strat = "RSI" /\ reports[k].rep.action = "buy"
    /\ \E k \in 1..Len(b_results) : tickers[b_results[k].ticker].bars = 25

\* C9, the part on notify.main alone
C9_NotifyCollectsFailures ==
    n_pc = "done" =>
        /\ analysed = [i \in 1..Len(holdings) |-> <<"holdings", i>>]
                        \o [i \in 1..Len(watchlist) |-> <<"watchlist", i>>]
        /\ \A i \in 1..Len(holdings) : FetchFailed(holdings[i]) =>
              \E k \in 1..Len(reports) :
                  reports[k] = Entry("holdings", i, [kind |-> "error"])
        /\ \A i \in 1..Len(watchlist) : FetchFailed(watchlist[i]) =>
              \E k \in 1..Len(reports) :
                  reports[k] = Entry("watchlist", i, [kind |-> "error"])

====
